---- MODULE Spec2Model ----
(***************************************************************************)
(* The multilevel coarsening driver (MLCoarsener) and the heavy-edge rater *)
(* (HeavyEdgeRater) of KaHyPar, as a state machine.                        *)
(*                                                                         *)
(*   driver A : the coarsener under study: its hypergraph hg, its rater    *)
(*              (tmp_ratings, already_matched, comm), its history and the  *)
(*              locals of coarsenImpl (limit, pass_nr, current_hns, ...).  *)
(*   driver B : a second coarsener on a copy of the original hypergraph    *)
(*              (mirror), on which simulateContractions is run.            *)
(*                                                                         *)
(* Ratings are doubles in the code.  They are modelled as exact fractions: *)
(* an accumulated score is kept as an integer multiple of 1/RatingScale    *)
(* and a normalised rating as a pair num/den compared by cross             *)
(* multiplication; rounding of the floating-point operations is not        *)
(* modelled.                                                               *)
(*                                                                         *)
(* The hypergraph data structure, VertexPairCoarsenerBase, the policies    *)
(* and the refiner are not part of the two source files; they are modelled *)
(* from their description in the specification (sections 3, 4.3 and 6).    *)
(***************************************************************************)
EXTENDS Integers, Sequences, FiniteSets, TLC

\* ------------------------------------------------------------ bounds
NumNodes == 4
MaxThreshold == 4
MaxMementos == 2

Nodes == 1..NumNodes
EdgeIds == {1, 2}
PartIDs == {0, 1}
MaxNodeWeight == 2

\* std::numeric_limits<HypernodeID>::max(): all bits set, never a vertex id.
kInvalidTarget == -1

RECURSIVE Factorial(_)
Factorial(n) == IF n <= 1 THEN 1 ELSE n * Factorial(n - 1)

\* Scores are multiples of 1/(|e|-1) with |e| <= NumNodes: held times RatingScale.
RatingScale == Factorial(NumNodes - 1)

\* std::numeric_limits<RatingType>::min() for the floating-point RatingType:
\* the smallest POSITIVE normalised value, here 1/MinRatingDen, below every
\* positive rating of the model and above 0.
MinRatingDen == 1000000
MinRating == [num |-> 1, den |-> MinRatingDen]

RatingLess(a, b) == a.num * b.den < b.num * a.den
RatingEq(a, b) == a.num * b.den = b.num * a.den

VARIABLES
  hg,                       \* _hg of driver A
  hg0,                      \* the hypergraph as handed to the constructor
  comm,                     \* _comm
  max_allowed_node_weight,  \* _context.coarsening.max_allowed_node_weight
  use_assertions,           \* whether ASSERT is compiled in: "yes", "no", or
                            \* "unobserved" while no assertion has failed yet
  tmp_ratings,              \* _tmp_ratings
  already_matched,          \* _already_matched
  history,                  \* _history
  pc,                       \* position of the caller / of coarsenImpl
  limit, pass_nr, current_hns, num_hns_before_pass,  \* locals of coarsenImpl
  last_rating,              \* the Rating returned by the latest rate call
  contraction_calls,        \* arguments of _contraction_func, in call order
  end_of_pass_calls,        \* calls of _end_of_pass_func in the current coarsen
  pass_contractions,        \* contractions of the current (or last) pass
  start_num_nodes,          \* currentNumNodes() when coarsen was called
  uncontraction_calls,      \* arguments of _uncontraction_func, in call order
  mirror                    \* driver B and the run of simulateContractions

vars == <<hg, hg0, comm, max_allowed_node_weight, use_assertions, tmp_ratings,
          already_matched, history, pc, limit, pass_nr, current_hns,
          num_hns_before_pass, last_rating, contraction_calls,
          end_of_pass_calls, pass_contractions, start_num_nodes,
          uncontraction_calls, mirror>>

\* ------------------------------------------------------------ hypergraph
nodeWeight(h, v) == h.weight[v]
partID(h, v) == h.part[v]
nodeIsEnabled(h, v) == v \in Nodes /\ h.enabled[v]
nodes(h) == {v \in Nodes : h.enabled[v]}
currentNumNodes(h) == Cardinality(nodes(h))
edges(h) == {e \in EdgeIds : h.eenabled[e]}
currentNumEdges(h) == Cardinality(edges(h))
pins(h, e) == h.pins[e]
edgeSize(h, e) == Cardinality(h.pins[e])
edgeWeight(h, e) == h.eweight[e]
incidentEdges(h, v) == {e \in EdgeIds : h.eenabled[e] /\ v \in h.pins[e]}

\* contract(u, v): v is merged into u.  Weights are summed, u takes v's place
\* in every hyperedge of v (once), v is disabled.  members[u] is the set of
\* original vertices that u stands for.
contract(h, u, v) ==
  LET ev == incidentEdges(h, v)
  IN [h EXCEPT !.weight[u] = h.weight[u] + h.weight[v],
               !.enabled[v] = FALSE,
               !.pins = [e \in EdgeIds |->
                           IF e \in ev THEN (h.pins[e] \ {v}) \cup {u}
                                       ELSE h.pins[e]],
               !.members[u] = h.members[u] \cup h.members[v]]

\* The memento keeps what the uncontraction needs: v's hyperedges, those u
\* already shared with v, and the hyperedges removed after the contraction.
ContractionMemento(h, u, v) ==
  [u |-> u, v |-> v,
   v_edges |-> incidentEdges(h, v),
   shared |-> incidentEdges(h, v) \cap incidentEdges(h, u),
   removed |-> {}]

\* The hyperedges left with the representative as their only pin.
singleNodeHyperedges(h, u) == {e \in incidentEdges(h, u) : edgeSize(h, e) = 1}

removeEdges(h, es) ==
  [h EXCEPT !.eenabled = [e \in EdgeIds |-> h.eenabled[e] /\ e \notin es]]

restoreEdges(h, es) ==
  [h EXCEPT !.eenabled = [e \in EdgeIds |-> h.eenabled[e] \/ e \in es]]

\* uncontract(memento): the inverse of contract on the state right after it.
uncontract(h, m) ==
  [h EXCEPT !.weight[m.u] = h.weight[m.u] - h.weight[m.v],
            !.enabled[m.v] = TRUE,
            !.pins = [e \in EdgeIds |->
                        IF e \in m.shared THEN h.pins[e] \cup {m.v}
                        ELSE IF e \in m.v_edges
                             THEN (h.pins[e] \ {m.u}) \cup {m.v}
                             ELSE h.pins[e]],
            !.members[m.u] = h.members[m.u] \ h.members[m.v]]

\* VertexPairCoarsenerBase::performContraction: contract, append the memento
\* to the history, remove the hyperedges that became single-node hyperedges.
performContraction(d, u, v) ==
  LET m == ContractionMemento(d.hg, u, v)
      h1 == contract(d.hg, u, v)
      gone == singleNodeHyperedges(h1, u)
  IN [hg |-> removeEdges(h1, gone),
      history |-> Append(d.history, [m EXCEPT !.removed = gone])]

\* ------------------------------------------------------------ rater
\* Mutant: the weight of u is left out of the comparison.
belowThresholdNodeWeight_ignoring_u(weight_u, weight_v) ==
  weight_v <= max_allowed_node_weight

\* HeavyEdgeRater::belowThresholdNodeWeight
belowThresholdNodeWeight(weight_u, weight_v) ==
  weight_v + weight_u <= max_allowed_node_weight

\* Mutant: the partition test is left out of the filter.
Admissible_any_part(h, u, v) ==
  /\ v # u
  /\ belowThresholdNodeWeight(nodeWeight(h, u), nodeWeight(h, v))

\* The filter of the accumulation loop of rate.
Admissible(h, u, v) ==
  /\ v # u
  /\ belowThresholdNodeWeight(nodeWeight(h, u), nodeWeight(h, v))
  /\ partID(h, u) = partID(h, v)

\* Mutant: the community test is left out of the selection loop.
SameCommunity_any(u, tmp_target) == TRUE

\* The community filter of the selection loop of rate.
SameCommunity(u, tmp_target) == comm[u] = comm[tmp_target]

\* Mutant: the weight is divided by the size of the hyperedge.
Score_by_size(h, he) == (edgeWeight(h, he) * RatingScale) \div edgeSize(h, he)

\* edgeWeight(he) / (edgeSize(he) - 1), times RatingScale.  For an edge of
\* size 1 the quotient is never added to any entry (its only pin is u).
Score(h, he) ==
  IF edgeSize(h, he) > 1
  THEN (edgeWeight(h, he) * RatingScale) \div (edgeSize(h, he) - 1)
  ELSE 0

\* _tmp_ratings[v] += score on the sparse map: a new key is appended.
AddScore(acc, v, score) ==
  IF \E i \in 1..Len(acc) : acc[i].key = v
  THEN [i \in 1..Len(acc) |->
          IF acc[i].key = v THEN [acc[i] EXCEPT !.value = @ + score] ELSE acc[i]]
  ELSE Append(acc, [key |-> v, value |-> score])

\* The inner loop of rate over the pins of he, from pin v on.
RECURSIVE AccumulatePins(_, _, _, _, _)
AccumulatePins(h, u, he, v, acc) ==
  IF v > NumNodes THEN acc
  ELSE AccumulatePins(h, u, he, v + 1,
         IF v \in pins(h, he) /\ Admissible(h, u, v)
         THEN AddScore(acc, v, Score(h, he))
         ELSE acc)

\* The outer loop of rate over the incident hyperedges of u, from he on.
RECURSIVE AccumulateEdges(_, _, _, _)
AccumulateEdges(h, u, he, acc) ==
  IF he \notin EdgeIds THEN acc
  ELSE AccumulateEdges(h, u, he + 1,
         IF he \in incidentEdges(h, u)
         THEN AccumulatePins(h, u, he, 1, acc)
         ELSE acc)

\* NodeWeightPenalty::penalty, the multiplicative penalty.
Penalty(weight_u, weight_v) == weight_u * weight_v

\* Mutant: the policy can give either answer whatever the two ratings are.
AcceptRating_any(tmp, max_rating, old_target, new_target, matched) == {TRUE, FALSE}

\* AcceptancePolicy::acceptRating: the set of answers the policy can give.
\* A strictly better rating is accepted, a worse one is not, a tie is
\* resolved by the tie-breaking policy (first wins, last wins, random,
\* preference for unmatched vertices): either answer.
AcceptRating(tmp, max_rating, old_target, new_target, matched) ==
  IF RatingLess(max_rating, tmp) THEN {TRUE}
  ELSE IF RatingEq(max_rating, tmp) THEN {TRUE, FALSE}
  ELSE {FALSE}

\* The selection loop of rate: entries i, i-1, ..., 1 of the accumulator.
\* The result is the set of the pairs (max_rating, target) it can end with.
RECURSIVE SelectTarget(_, _, _, _, _, _)
SelectTarget(h, matched, u, acc, i, best) ==
  IF i < 1 THEN {best}
  ELSE LET tmp_target == acc[i].key
           tmp_rating == [num |-> acc[i].value,
                          den |-> Penalty(nodeWeight(h, u), nodeWeight(h, tmp_target))]
           answers == IF SameCommunity(u, tmp_target)
                      THEN AcceptRating(tmp_rating, best.max_rating, best.target,
                                        tmp_target, matched)
                      ELSE {FALSE}
       IN UNION {SelectTarget(h, matched, u, acc, i - 1,
                              IF a THEN [max_rating |-> tmp_rating, target |-> tmp_target]
                                   ELSE best) : a \in answers}

\* Mutant: the accumulator keeps its entries after the call.
ClearRatings_kept(acc) == acc

\* _tmp_ratings.clear()
ClearRatings(acc) == << >>

\* Mutant: the size of the hyperedges is not asserted.
EdgeSizeAssertion_none(h, u) == TRUE

\* The hyperedge-size assertion of the accumulation loop.
EdgeSizeAssertion(h, u) == \A he \in incidentEdges(h, u) : edgeSize(h, he) > 1

\* The assertions on the returned rating.
RatingAssertions(h, u, ret) ==
  ret.valid => /\ ret.target # kInvalidTarget
               /\ comm[u] = comm[ret.target]
               /\ partID(h, u) = partID(h, ret.target)

\* HeavyEdgeRater::rate: the set of ratings the call can return, each with
\* the accumulator it leaves and whether an assertion of the call fails.
rate(h, matched, acc, u) ==
  LET filled == AccumulateEdges(h, u, 1, acc)
      ends == SelectTarget(h, matched, u, filled, Len(filled),
                           [max_rating |-> MinRating, target |-> kInvalidTarget])
  IN {LET ret == IF ~RatingEq(b.max_rating, MinRating)
                 THEN [target |-> b.target, value |-> b.max_rating, valid |-> TRUE]
                 ELSE [target |-> kInvalidTarget, value |-> MinRating, valid |-> FALSE]
      IN [target |-> ret.target, value |-> ret.value, valid |-> ret.valid,
          source |-> u,
          tmp_ratings |-> ClearRatings(filled),
          assertions_hold |-> EdgeSizeAssertion(h, u) /\ RatingAssertions(h, u, ret)]
      : b \in ends}

\* ------------------------------------------------------------ initial states
\* Two hyperedges, up to a renaming of the vertices: the first has the pins
\* 1..k; the second shares i pins with it and has j pins of its own.
InitialPins ==
  {[e \in EdgeIds |-> IF e = 1 THEN 1..k ELSE (1..i) \cup ((k + 1)..(k + j))] :
     k \in 2..NumNodes, i \in 0..NumNodes, j \in 0..NumNodes} \cap
  [EdgeIds -> {S \in SUBSET Nodes : Cardinality(S) >= 2}]

\* What sets an initial hypergraph apart from the plain one (unit vertex
\* weights, unit hyperedge weights, one block, one community): nothing, or one
\* vertex that is in another block, in another community or heavier, or one
\* hyperedge of weight 0.
InitialFeatures ==
  {[kind |-> "none", at |-> 0]} \cup
  [kind : {"part", "comm", "weight"}, at : Nodes] \cup
  [kind : {"eweight"}, at : EdgeIds]

\* The initial hypergraphs: the plain one on every pair of hyperedges, and
\* the ones with a feature where the first hyperedge holds every vertex and
\* the second one the vertices 1 and 2.
InitialShapes ==
  {sh \in [pins : InitialPins, feature : InitialFeatures] :
     sh.feature.kind = "none" \/ (sh.pins[1] = Nodes /\ sh.pins[2] = {1, 2})}

Only(f, kind, x, odd, base) == IF f.kind = kind /\ f.at = x THEN odd ELSE base

\* The hypergraphs a driver is constructed on: every hyperedge has at least
\* two pins, every vertex is enabled, vertex weights are positive.
InitialHypergraph(ps, f) ==
  [weight |-> [v \in Nodes |-> Only(f, "weight", v, MaxNodeWeight, 1)],
   part |-> [v \in Nodes |-> Only(f, "part", v, 1, 0)],
   enabled |-> [v \in Nodes |-> TRUE],
   pins |-> ps,
   eweight |-> [e \in EdgeIds |-> Only(f, "eweight", e, 0, 1)],
   eenabled |-> [e \in EdgeIds |-> TRUE],
   members |-> [v \in Nodes |-> {v}]]

NoRating == [target |-> kInvalidTarget, value |-> MinRating, valid |-> FALSE,
             source |-> kInvalidTarget]

Init ==
  /\ \E sh \in InitialShapes :
       /\ hg = InitialHypergraph(sh.pins, sh.feature)
       /\ comm = [v \in Nodes |-> Only(sh.feature, "comm", v, 1, 0)]
  /\ hg0 = hg
  /\ max_allowed_node_weight \in 1..MaxThreshold
  /\ use_assertions = "unobserved"
  /\ tmp_ratings = << >>
  /\ already_matched = [v \in Nodes |-> FALSE]
  /\ history = << >>
  /\ pc = "idle"
  /\ limit = 0
  /\ pass_nr = 0
  /\ current_hns = {}
  /\ num_hns_before_pass = 0
  /\ last_rating = NoRating
  /\ contraction_calls = << >>
  /\ end_of_pass_calls = 0
  /\ pass_contractions = 0
  /\ start_num_nodes = 0
  /\ uncontraction_calls = << >>
  /\ mirror = [hg |-> hg, history |-> << >>, mementos |-> << >>, pos |-> 0,
               status |-> "fresh", contraction_calls |-> << >>,
               tmp_ratings |-> << >>,
               already_matched |-> [v \in Nodes |-> FALSE]]

\* ------------------------------------------------------------ coarsen
RaterVars == <<tmp_ratings, already_matched>>
Config == <<hg0, comm, max_allowed_node_weight>>

\* ASSERT(cond): a build with assertions aborts when cond is false, a build
\* without them goes on.  The two builds behave alike until an assertion
\* fails, so the build is settled, once and for all, at the first failure.
AssertOutcomes(cond) ==
  IF cond THEN {use_assertions}
  ELSE IF use_assertions = "unobserved" THEN {"yes", "no"}
  ELSE {use_assertions}

Aborts(cond, build) == ~cond /\ build = "yes"

\* coarsen(limit) is called: the locals of coarsenImpl are initialised.
CoarsenCall(l) ==
  /\ pc = "idle"
  /\ pc' = "while"
  /\ limit' = l
  /\ pass_nr' = 0
  /\ current_hns' = {}
  /\ end_of_pass_calls' = 0
  /\ pass_contractions' = 0
  /\ start_num_nodes' = currentNumNodes(hg)
  /\ UNCHANGED <<hg, Config, use_assertions, RaterVars, history, num_hns_before_pass, last_rating,
                 contraction_calls, uncontraction_calls, mirror>>

\* The loop test holds: resetMatches, snapshot of the enabled vertices and
\* shuffle.  current_hns holds the vertices of the shuffled list that the
\* for loop has not reached yet; the loop takes them in any order, which is
\* the order the shuffle produced.
PassBegin ==
  /\ pc = "while"
  /\ currentNumNodes(hg) > limit
  /\ already_matched' = [v \in Nodes |-> FALSE]
  /\ current_hns' = nodes(hg)
  /\ num_hns_before_pass' = currentNumNodes(hg)
  /\ pass_contractions' = 0
  /\ pc' = "scan"
  /\ UNCHANGED <<hg, Config, use_assertions, tmp_ratings, history, limit, pass_nr, last_rating,
                 contraction_calls, end_of_pass_calls, start_num_nodes,
                 uncontraction_calls, mirror>>

\* The loop test fails: coarsenImpl returns.
CoarsenReturn ==
  /\ pc = "while"
  /\ ~(currentNumNodes(hg) > limit)
  /\ pc' = "coarsened"
  /\ UNCHANGED <<hg, Config, use_assertions, RaterVars, history, limit, pass_nr, current_hns,
                 num_hns_before_pass, last_rating, contraction_calls,
                 end_of_pass_calls, pass_contractions, start_num_nodes,
                 uncontraction_calls, mirror>>

\* Mutant: the rated vertex is merged into its target.
ContractionPair_swapped(hn, rating) == [u |-> rating.target, v |-> hn]

\* The pair handed to performContraction and to the contraction callback.
ContractionPair(hn, rating) == [u |-> hn, v |-> rating.target]

\* Mutant: the scan goes on when the count is equal to the limit.
LimitReached_below(h) == currentNumNodes(h) < limit

\* The break test after a vertex has been handled.
LimitReached(h) == currentNumNodes(h) <= limit

\* Mutant: marking a vertex forgets the markers set before.
markAsMatched_alone(matched, hn) == [v \in Nodes |-> v = hn]

\* HeavyEdgeRater::markAsMatched
markAsMatched(matched, hn) == [matched EXCEPT ![hn] = TRUE]

\* Mutant: the callback gets the contracted vertex first.
ContractionCallback_swapped(calls, u, v) == Append(calls, <<v, u>>)

\* _contraction_func(u, v): the arguments are recorded in call order.
ContractionCallback(calls, u, v) == Append(calls, <<u, v>>)

\* Mutant: a disabled vertex of the list is handled like any other.
SkipsVertex_never(h, hn) == FALSE

\* The test that guards the body of the for loop: a vertex that has been
\* contracted away since the snapshot is passed over.
SkipsVertex(h, hn) == ~nodeIsEnabled(h, hn)

\* Mutant: the for loop does not move on from hn.
RestOfPass_same(hns, hn) == hns

\* The vertices of the work list the for loop has yet to reach, once it has
\* reached hn.
RestOfPass(hns, hn) == hns \ {hn}

\* Mutant: the break leaves the pass without the end-of-pass callback.
AfterVisit_break_to_while(h, hn) ==
  IF LimitReached(h) THEN "while"
  ELSE IF RestOfPass(current_hns, hn) = {} THEN "pass_end" ELSE "scan"

\* Where the for loop goes after hn: out of the loop on break or at the end
\* of the list, to the next vertex otherwise.
AfterVisit(h, hn) ==
  IF LimitReached(h) \/ RestOfPass(current_hns, hn) = {} THEN "pass_end" ELSE "scan"

\* One iteration of the for loop over current_hns, for the vertex hn.
VisitNode(hn) ==
  /\ pc = "scan"
  /\ hn \in current_hns
  /\ current_hns' = RestOfPass(current_hns, hn)
  /\ IF SkipsVertex(hg, hn)
     THEN /\ pc' = IF current_hns' = {} THEN "pass_end" ELSE "scan"
          /\ UNCHANGED <<hg, RaterVars, history, last_rating, contraction_calls,
                         pass_contractions, use_assertions>>
     ELSE \E rating \in rate(hg, already_matched, tmp_ratings, hn) :
          \E build \in AssertOutcomes(rating.assertions_hold) :
          /\ use_assertions' = build
          /\ tmp_ratings' = rating.tmp_ratings
          /\ last_rating' = [target |-> rating.target, value |-> rating.value,
                             valid |-> rating.valid, source |-> hn]
          /\ IF Aborts(rating.assertions_hold, build)
             THEN /\ pc' = "aborted"
                  /\ UNCHANGED <<hg, already_matched, history, contraction_calls,
                                 pass_contractions>>
             ELSE IF rating.target # kInvalidTarget
             THEN LET c == ContractionPair(hn, rating)
                      d == performContraction([hg |-> hg, history |-> history], c.u, c.v)
                  IN /\ already_matched' =
                          markAsMatched(markAsMatched(already_matched, hn), rating.target)
                     /\ hg' = d.hg
                     /\ history' = d.history
                     /\ contraction_calls' = ContractionCallback(contraction_calls, c.u, c.v)
                     /\ pass_contractions' = pass_contractions + 1
                     /\ pc' = AfterVisit(d.hg, hn)
             ELSE /\ pc' = AfterVisit(hg, hn)
                  /\ UNCHANGED <<hg, already_matched, history, contraction_calls,
                                 pass_contractions>>
  /\ UNCHANGED <<Config, limit, pass_nr, num_hns_before_pass, end_of_pass_calls,
                 start_num_nodes, uncontraction_calls, mirror>>

\* Mutant: the loop is left after a pass that has contracted.
StallDetected_on_progress(before, h) == before # currentNumNodes(h)

\* Mutant: a pass without a contraction is not noticed.
StallDetected_never(before, h) == FALSE

\* The stall test at the end of a pass.
StallDetected(before, h) == before = currentNumNodes(h)

\* After the for loop: the end-of-pass callback, the stall test, ++pass_nr.
PassEnd ==
  /\ pc = "pass_end"
  /\ end_of_pass_calls' = end_of_pass_calls + 1
  /\ IF StallDetected(num_hns_before_pass, hg)
     THEN pc' = "coarsened" /\ pass_nr' = pass_nr
     ELSE pc' = "while" /\ pass_nr' = pass_nr + 1
  /\ UNCHANGED <<hg, Config, use_assertions, RaterVars, history, limit, current_hns,
                 num_hns_before_pass, last_rating, contraction_calls,
                 pass_contractions, start_num_nodes, uncontraction_calls, mirror>>

\* ------------------------------------------------------------ uncoarsen
CoarsenVars == <<limit, pass_nr, current_hns, num_hns_before_pass, last_rating,
                 end_of_pass_calls, pass_contractions, start_num_nodes>>

\* uncoarsen(refiner) is called.
UncoarsenCall ==
  /\ pc \in {"idle", "coarsened"}
  /\ pc' = "uncoarsen"
  /\ UNCHANGED <<hg, Config, use_assertions, RaterVars, history, CoarsenVars, contraction_calls,
                 uncontraction_calls, mirror>>

\* Mutant: the oldest record is taken first.
NextToRestore_oldest(hist) == 1

\* The record doUncoarsen takes next: the most recently appended one.
NextToRestore(hist) == Len(hist)

\* The uncontraction callback: the restored vertex gets the partition id the
\* representative has now.
AssignRepresentativePart(h, m) == [h EXCEPT !.part[m.v] = h.part[m.u]]

\* The moves the refiner can make after the restoration of (u, v): none, or
\* the restored vertex to another block.
RefinerMoves(h, m) ==
  {h} \cup {[h EXCEPT !.part[m.v] = p] : p \in PartIDs}

\* One iteration of doUncoarsen: the record is taken off the history, the
\* removed hyperedges are restored, the contraction is undone, the
\* uncontraction callback and the refiner run.
UncoarsenStep ==
  /\ pc = "uncoarsen"
  /\ history # << >>
  /\ LET i == NextToRestore(history)
         m == history[i]
         h1 == uncontract(restoreEdges(hg, m.removed), m)
         h2 == AssignRepresentativePart(h1, m)
     IN /\ hg' \in RefinerMoves(h2, m)
        /\ history' = [j \in 1..(Len(history) - 1) |->
                         IF j < i THEN history[j] ELSE history[j + 1]]
        /\ uncontraction_calls' = Append(uncontraction_calls, <<m.u, m.v>>)
  /\ UNCHANGED <<Config, use_assertions, RaterVars, pc, CoarsenVars,
                 contraction_calls, mirror>>

\* The history is empty: doUncoarsen returns.
UncoarsenReturn ==
  /\ pc = "uncoarsen"
  /\ history = << >>
  /\ pc' = "done"
  /\ UNCHANGED <<hg, Config, use_assertions, RaterVars, history, CoarsenVars, contraction_calls,
                 uncontraction_calls, mirror>>

\* ------------------------------------------------------------ simulateContractions
\* The (u, v) pairs of a history, as handed to simulateContractions.
Mementos(hist) == [i \in 1..Len(hist) |-> [u |-> hist[i].u, v |-> hist[i].v]]

\* Any records over the vertex ids, at most MaxMementos of them.
ArbitraryMementos ==
  UNION {[1..n -> [u : Nodes, v : Nodes]] : n \in 0..MaxMementos}

\* The history of driver A, once it holds records.
ReplayedMementos == IF history = << >> THEN {} ELSE {Mementos(history)}

\* simulateContractions(mementos) is called on driver B, which was built on a
\* copy of the original hypergraph.
SimulateCall(ms) ==
  /\ pc \in {"idle", "coarsened"}
  /\ mirror.status = "fresh"
  /\ pc' = "simulate"
  /\ mirror' = [mirror EXCEPT !.status = "running", !.mementos = ms, !.pos = 1]
  /\ UNCHANGED <<hg, Config, use_assertions, RaterVars, history, CoarsenVars, contraction_calls,
                 uncontraction_calls>>

\* The two assertions of the loop body of simulateContractions.
MementoAssertions(h, memento) ==
  nodeIsEnabled(h, memento.u) /\ nodeIsEnabled(h, memento.v)

\* Mutant: the two vertices of the record change places.
SimulatedPair_swapped(memento) == [u |-> memento.v, v |-> memento.u]

\* The pair simulateContractions hands to performContraction and the callback.
SimulatedPair(memento) == [u |-> memento.u, v |-> memento.v]

\* One iteration of the loop of simulateContractions.
SimulateStep ==
  /\ pc = "simulate"
  /\ mirror.pos <= Len(mirror.mementos)
  /\ LET memento == mirror.mementos[mirror.pos]
         c == SimulatedPair(memento)
         d == performContraction([hg |-> mirror.hg, history |-> mirror.history],
                                 c.u, c.v)
         holds == MementoAssertions(mirror.hg, memento)
     IN \E build \in AssertOutcomes(holds) :
        /\ use_assertions' = build
        /\ IF Aborts(holds, build)
           THEN /\ pc' = "aborted"
                /\ mirror' = [mirror EXCEPT !.status = "aborted"]
           ELSE /\ pc' = pc
                /\ mirror' = [mirror EXCEPT
                                !.hg = d.hg, !.history = d.history,
                                !.contraction_calls = ContractionCallback(@, c.u, c.v),
                                !.pos = @ + 1]
  /\ UNCHANGED <<hg, Config, RaterVars, history, CoarsenVars, contraction_calls,
                 uncontraction_calls>>

\* The loop is over: simulateContractions returns.
SimulateReturn ==
  /\ pc = "simulate"
  /\ mirror.pos > Len(mirror.mementos)
  /\ pc' = "simulated"
  /\ mirror' = [mirror EXCEPT !.status = "returned"]
  /\ UNCHANGED <<hg, Config, use_assertions, RaterVars, history, CoarsenVars, contraction_calls,
                 uncontraction_calls>>

\* ------------------------------------------------------------ specification
Next ==
  \/ \E l \in 0..NumNodes : CoarsenCall(l)
  \/ PassBegin
  \/ CoarsenReturn
  \/ \E hn \in Nodes : VisitNode(hn)
  \/ PassEnd
  \/ UncoarsenCall
  \/ UncoarsenStep
  \/ UncoarsenReturn
  \/ \E ms \in ReplayedMementos : SimulateCall(ms)
  \/ SimulateStep
  \/ SimulateReturn

\* Driver A coarsens and uncoarsens; driver B replays the history of driver A.
Spec == Init /\ [][Next]_vars

\* The same drivers, where driver B can also be handed any records.  The
\* initial hypergraphs of this specification have one block, one community,
\* hyperedges of weight 1, a first hyperedge that holds every vertex and a
\* second one that holds the vertices 1 and 2.
InitAnyRecords ==
  /\ Init
  /\ hg.pins[1] = Nodes /\ hg.pins[2] = {1, 2}
  /\ \A v \in Nodes : hg.part[v] = 0 /\ comm[v] = 0
  /\ \A e \in EdgeIds : hg.eweight[e] = 1

NextAnyRecords ==
  \/ Next
  \/ /\ pc = "idle"
     /\ \E ms \in ArbitraryMementos : SimulateCall(ms)

SpecAnyRecords == InitAnyRecords /\ [][NextAnyRecords]_vars

\* The state after the construction of both drivers on the hypergraph h with
\* the communities c and the weight threshold t.
Constructed(h, c, t) ==
  /\ hg = h
  /\ hg0 = h
  /\ comm = c
  /\ max_allowed_node_weight = t
  /\ use_assertions = "unobserved"
  /\ tmp_ratings = << >>
  /\ already_matched = [v \in Nodes |-> FALSE]
  /\ history = << >>
  /\ pc = "idle"
  /\ limit = 0
  /\ pass_nr = 0
  /\ current_hns = {}
  /\ num_hns_before_pass = 0
  /\ last_rating = NoRating
  /\ contraction_calls = << >>
  /\ end_of_pass_calls = 0
  /\ pass_contractions = 0
  /\ start_num_nodes = 0
  /\ uncontraction_calls = << >>
  /\ mirror = [hg |-> h, history |-> << >>, mementos |-> << >>, pos |-> 0,
               status |-> "fresh", contraction_calls |-> << >>,
               tmp_ratings |-> << >>,
               already_matched |-> [v \in Nodes |-> FALSE]]

\* The scenario with four vertices of weight 1 in one hyperedge of weight 6,
\* one block, one community and the weight threshold 10.
ScenarioNumNodes == 4
ScenarioEdgeWeight == 6
ScenarioThreshold == 10

\* The hypergraph of the scenario: the vertex ids above ScenarioNumNodes and
\* the second hyperedge id are not in use.
ScenarioHypergraph ==
  [weight |-> [v \in Nodes |-> 1],
   part |-> [v \in Nodes |-> 0],
   enabled |-> [v \in Nodes |-> v <= ScenarioNumNodes],
   pins |-> [e \in EdgeIds |-> IF e = 1 THEN 1..ScenarioNumNodes ELSE {}],
   eweight |-> [e \in EdgeIds |-> IF e = 1 THEN ScenarioEdgeWeight ELSE 1],
   eenabled |-> [e \in EdgeIds |-> e = 1],
   members |-> [v \in Nodes |-> {v}]]

InitScenario ==
  Constructed(ScenarioHypergraph, [v \in Nodes |-> 0], ScenarioThreshold)

\* The drivers on the hypergraph of the scenario.
SpecScenario == InitScenario /\ [][Next]_vars

\* Hypergraphs with a hyperedge of one pin, as an input file can hold them:
\* unit weights, one block, a first hyperedge with the pins 1..k and a
\* second one with the single pin v.
DegenerateHypergraphs ==
  {[weight |-> [x \in Nodes |-> 1],
    part |-> [x \in Nodes |-> 0],
    enabled |-> [x \in Nodes |-> TRUE],
    pins |-> [e \in EdgeIds |-> IF e = 1 THEN 1..k ELSE {v}],
    eweight |-> [e \in EdgeIds |-> 1],
    eenabled |-> [e \in EdgeIds |-> TRUE],
    members |-> [x \in Nodes |-> {x}]] : k \in 2..NumNodes, v \in Nodes}

InitDegenerate ==
  \E h \in DegenerateHypergraphs : \E t \in 1..MaxThreshold :
    Constructed(h, [v \in Nodes |-> 0], t)

\* The drivers on a hypergraph with a single-pin hyperedge.
SpecDegenerate == InitDegenerate /\ [][Next]_vars

\* ------------------------------------------------------------ claims
CoarsenPositions == {"while", "scan", "pass_end"}

\* The ratings rate(u) can return in the current state of driver A.
RatingsOf(u) == rate(hg, already_matched, tmp_ratings, u)

\* C1: in every reachable state, a valid rating returned by rate(u) for an
\* enabled vertex u names a target other than u, in u's block and in u's
\* community, whose weight added to u's does not exceed the threshold.
C1_RateTargetAdmissible ==
  \A u \in nodes(hg) : \A r \in RatingsOf(u) :
    r.valid =>
      /\ r.target \in Nodes
      /\ r.target # u
      /\ partID(hg, r.target) = partID(hg, u)
      /\ comm[r.target] = comm[u]
      /\ nodeWeight(hg, u) + nodeWeight(hg, r.target) <= max_allowed_node_weight

\* rate has returned a valid rating to coarsen for a vertex u that had, in a
\* hyperedge of its own, a pin it could not be contracted with: one in
\* another block, in another community, or too heavy.
C1_Witness ==
  /\ pc \in CoarsenPositions
  /\ last_rating.valid
  /\ LET u == last_rating.source
         t == last_rating.target
     IN \E v \in nodes(hg) \ {u}, e \in incidentEdges(hg, u) :
          /\ v \in pins(hg, e)
          /\ \/ partID(hg, v) # partID(hg, u)
             \/ comm[v] # comm[u]
             \/ nodeWeight(hg, v) + nodeWeight(hg, u) - nodeWeight(hg, t)
                  > max_allowed_node_weight

\* A step of coarsen that performs a contraction, and the record it appends.
CoarsenContracts == pc = "scan" /\ Len(history') = Len(history) + 1
Appended == history'[Len(history')]

\* C2: every contraction performed by coarsen merges two vertices that have,
\* right before it, the same partition id and the same community label, in
\* every pass and also for vertices that result from earlier contractions.
C2_ContractionsWithinBlockAndCommunity ==
  [][CoarsenContracts =>
       /\ nodeIsEnabled(hg, Appended.u) /\ nodeIsEnabled(hg, Appended.v)
       /\ partID(hg, Appended.u) = partID(hg, Appended.v)
       /\ comm[Appended.u] = comm[Appended.v]]_vars

\* In a second pass, a vertex that stands for two vertices has been
\* contracted with another vertex that stands for two.
C2_Witness ==
  /\ pc \in CoarsenPositions \cup {"coarsened"}
  /\ pass_nr >= 1
  /\ \E i, j, k \in 1..Len(history) :
        /\ i < k /\ j < k /\ i # j
        /\ history[k].u = history[i].u
        /\ history[k].v = history[j].u

\* A step of simulateContractions that performs a contraction, and whether
\* the records it replays are the history of driver A.
SimulateContracts == pc = "simulate" /\ Len(mirror'.history) = Len(mirror.history) + 1
Replayed == mirror'.history[Len(mirror'.history)]
ReplaysHistory == mirror.mementos = Mementos(history) /\ history # << >>

\* C3, as amended: the weight of the representative after a contraction is
\* at most the configured maximum node weight, for every contraction chosen
\* by coarsen and for every contraction simulateContractions replays from
\* the history of a coarsen call of a driver with the same configuration.
C3_ContractionWeightWithinThreshold ==
  [][/\ CoarsenContracts =>
          /\ nodeWeight(hg', Appended.u)
               = nodeWeight(hg, Appended.u) + nodeWeight(hg, Appended.v)
          /\ nodeWeight(hg', Appended.u) <= max_allowed_node_weight
     /\ (SimulateContracts /\ ReplaysHistory) =>
          /\ nodeWeight(mirror'.hg, Replayed.u)
               = nodeWeight(mirror.hg, Replayed.u) + nodeWeight(mirror.hg, Replayed.v)
          /\ nodeWeight(mirror'.hg, Replayed.u) <= max_allowed_node_weight]_vars

\* simulateContractions has replayed a history whose last record made a
\* representative of exactly the maximum weight.
C3_Witness ==
  /\ pc = "simulated"
  /\ ReplaysHistory
  /\ Len(mirror.history) = Len(history)
  /\ nodeWeight(mirror.hg, history[Len(history)].u) = max_allowed_node_weight
  /\ \E v \in Nodes : hg0.weight[v] = MaxNodeWeight

\* C3, as claimed: the weight of the representative is at most the maximum
\* node weight after every contraction, also after one that
\* simulateContractions replays from any record that names two distinct
\* enabled vertices.
C3_AnyContractionWeightWithinThreshold ==
  [][/\ CoarsenContracts =>
          nodeWeight(hg', Appended.u) <= max_allowed_node_weight
     /\ (/\ SimulateContracts
         /\ Replayed.u # Replayed.v
         /\ nodeIsEnabled(mirror.hg, Replayed.u)
         /\ nodeIsEnabled(mirror.hg, Replayed.v)) =>
          nodeWeight(mirror'.hg, Replayed.u) <= max_allowed_node_weight]_vars

\* C4: when coarsen returns, the count of enabled vertices is at most limit
\* or the last pass performed no contraction; the scan never goes on with a
\* count at or below limit; a call started above limit never gets below it.
C4_ReturnCondition ==
  /\ pc = "coarsened" =>
       currentNumNodes(hg) <= limit \/ pass_contractions = 0
  /\ pc = "scan" => currentNumNodes(hg) > limit
  /\ (pc \in CoarsenPositions \cup {"coarsened"} /\ start_num_nodes > limit) =>
       currentNumNodes(hg) >= limit

\* coarsen has returned with a count equal to limit, after a break that
\* left enabled vertices of the pass unvisited.
C4_Witness ==
  /\ pc = "coarsened"
  /\ start_num_nodes > limit
  /\ currentNumNodes(hg) = limit
  /\ pass_contractions > 0
  /\ \E hn \in current_hns : nodeIsEnabled(hg, hn)

\* A measure of what a running coarsen call still has to do: the passes
\* the count of enabled vertices allows and, within a pass, the vertices
\* the scan has not reached.
PassWork == NumNodes + 3
Remaining ==
  CASE pc = "while" -> currentNumNodes(hg) * PassWork + PassWork - 1
    [] pc = "scan" -> num_hns_before_pass * PassWork + 1 + Cardinality(current_hns)
    [] pc = "pass_end" -> num_hns_before_pass * PassWork
    [] OTHER -> 0

\* C5: a coarsen call terminates: the scan is never left without a vertex
\* to take, and every step of the call decreases a natural number; a pass
\* that is followed by another one has strictly decreased the count of
\* enabled vertices, and a pass that leaves the count unchanged is the last.
C5_CoarsenTerminates ==
  [][/\ pc' = "scan" => current_hns' # {}
     /\ (pc \in CoarsenPositions) =>
          (Remaining' < Remaining /\ 0 <= Remaining')
     /\ pc = "pass_end" =>
          /\ pc' = "while" => currentNumNodes(hg') < num_hns_before_pass
          /\ currentNumNodes(hg) = num_hns_before_pass => pc' = "coarsened"
          /\ pc' \in {"while", "coarsened"}]_vars

\* coarsen has returned after two passes: one that contracted and a last
\* one that left the count unchanged above the limit.
C5_Witness ==
  /\ pc = "coarsened"
  /\ pass_nr = 1
  /\ pass_contractions = 0
  /\ currentNumNodes(hg) > limit

\* The vertex the scan takes in a step of the for loop.
Visited == CHOOSE hn \in current_hns : hn \notin current_hns'

\* C6: while coarsen runs and when it has returned, the length of the
\* history is the initial count of vertices minus the count of enabled
\* vertices; a visit that gets a valid rating appends the one record
\* (visited vertex, target) and disables the target and nothing else; any
\* other visit appends nothing and disables nothing.
C6_HistoryCountsRemovedVertices ==
  [][/\ (pc' \in CoarsenPositions \cup {"coarsened"}) =>
          Len(history') = currentNumNodes(hg0) - currentNumNodes(hg')
     /\ pc = "scan" =>
          IF nodeIsEnabled(hg, Visited) /\ last_rating'.valid /\ pc' # "aborted"
          THEN /\ last_rating'.source = Visited
               /\ Mementos(history') =
                    Append(Mementos(history),
                           [u |-> Visited, v |-> last_rating'.target])
               /\ nodes(hg') = nodes(hg) \ {last_rating'.target}
               /\ last_rating'.target \in nodes(hg) \ {Visited}
          ELSE /\ history' = history
               /\ nodes(hg') = nodes(hg)]_vars

\* After two contractions, the scan has visited an enabled vertex whose
\* rating was invalid.
C6_Witness ==
  /\ pc \in CoarsenPositions
  /\ Len(history) >= 2
  /\ ~last_rating.valid
  /\ nodeIsEnabled(hg, last_rating.source)

\* The records uncoarsen has consumed so far, latest first.
Consumed ==
  [i \in 1..(Len(contraction_calls) - Len(history)) |->
     contraction_calls[Len(contraction_calls) + 1 - i]]

\* C7: uncoarsen restores the contractions of coarsen in the reverse of the
\* order they were made in, one restoration per record, and when it returns
\* the history is empty and the hypergraph has its original enabled
\* vertices, hyperedges, pins and vertex weights.
C7_CoarsenUncoarsenRoundTrip ==
  /\ pc \in {"uncoarsen", "done"} =>
       /\ uncontraction_calls = Consumed
       /\ [i \in 1..Len(history) |-> <<history[i].u, history[i].v>>]
            = SubSeq(contraction_calls, 1, Len(history))
  /\ pc = "done" =>
       /\ history = << >>
       /\ Len(uncontraction_calls) = Len(contraction_calls)
       /\ currentNumNodes(hg) = currentNumNodes(hg0)
       /\ currentNumEdges(hg) = currentNumEdges(hg0)
       /\ nodes(hg) = nodes(hg0) /\ edges(hg) = edges(hg0)
       /\ hg.pins = hg0.pins /\ hg.weight = hg0.weight

\* uncoarsen has returned after restoring three contractions that coarsen
\* made in two passes.
C7_Witness ==
  /\ pc = "done"
  /\ Len(uncontraction_calls) = 3
  /\ pass_nr >= 1

\* C8: when simulateContractions has replayed the history of a coarsen call
\* on a copy of the original hypergraph, it has made the same contraction
\* calls in the same order, the enabled vertices of the copy and the
\* original vertices each stands for are those of the coarsened hypergraph,
\* and the rater of the replaying driver is as it was constructed.
C8_SimulateReproducesCoarsen ==
  (pc = "simulated" /\ ReplaysHistory) =>
    /\ mirror.contraction_calls = contraction_calls
    /\ Mementos(mirror.history) = Mementos(history)
    /\ nodes(mirror.hg) = nodes(hg)
    /\ \A v \in nodes(hg) : mirror.hg.members[v] = hg.members[v]
    /\ mirror.hg.weight = hg.weight /\ mirror.hg.pins = hg.pins
    /\ mirror.tmp_ratings = << >>
    /\ \A v \in Nodes : ~mirror.already_matched[v]

\* simulateContractions has replayed a history of three records made in
\* two passes.
C8_Witness ==
  /\ pc = "simulated"
  /\ ReplaysHistory
  /\ Len(mirror.contraction_calls) = 3
  /\ pass_nr >= 1

\* The record simulateContractions is about to replay, if any.
AtRecord == pc = "simulate" /\ mirror.pos <= Len(mirror.mementos)
Record == mirror.mementos[mirror.pos]

\* C9: in a build with assertions, simulateContractions is aborted, with no
\* contraction and no callback, at a record (u, v) where u is disabled, v is
\* disabled, or u = v.
C9_SimulateRejectsBadRecords ==
  [][(/\ AtRecord
      /\ use_assertions' # "no"
      /\ \/ ~nodeIsEnabled(mirror.hg, Record.u)
         \/ ~nodeIsEnabled(mirror.hg, Record.v)
         \/ Record.u = Record.v) =>
       /\ pc' = "aborted"
       /\ mirror'.hg = mirror.hg
       /\ mirror'.history = mirror.history
       /\ mirror'.contraction_calls = mirror.contraction_calls]_vars

\* The vertices rate(u) is to choose among: the others that share a
\* hyperedge with u, are in its block and in its community, and are light
\* enough.
Partners(u) ==
  {v \in nodes(hg) \ {u} :
     /\ incidentEdges(hg, u) \cap incidentEdges(hg, v) # {}
     /\ partID(hg, v) = partID(hg, u)
     /\ comm[v] = comm[u]
     /\ nodeWeight(hg, u) + nodeWeight(hg, v) <= max_allowed_node_weight}

RECURSIVE SumOfScores(_)
SumOfScores(es) ==
  IF es = {} THEN 0
  ELSE LET e == CHOOSE x \in es : TRUE
       IN Score(hg, e) + SumOfScores(es \ {e})

\* (sum over the shared hyperedges e of weight(e)/(|e|-1)) / penalty
HeavyEdgeRating(u, v) ==
  [num |-> SumOfScores(incidentEdges(hg, u) \cap incidentEdges(hg, v)),
   den |-> nodeWeight(hg, u) * nodeWeight(hg, v)]

\* C10: for an enabled vertex u, rate(u) returns a valid rating exactly when
\* u has a partner; the value of a valid rating is the rating of its
\* target, the target is a partner, and no partner has a greater rating.
C10_RateReturnsBestPartner ==
  \A u \in nodes(hg) : \A r \in RatingsOf(u) :
    /\ r.valid <=> Partners(u) # {}
    /\ r.valid =>
         /\ r.target \in Partners(u)
         /\ RatingEq(r.value, HeavyEdgeRating(u, r.target))
         /\ \A v \in Partners(u) : ~RatingLess(r.value, HeavyEdgeRating(u, v))

\* Whether v is among the candidates of u whose rating is the greatest.
TiedAtBest(u, v) ==
  /\ v \in Partners(u)
  /\ \A w \in Partners(u) : ~RatingLess(HeavyEdgeRating(u, v), HeavyEdgeRating(u, w))

\* The ratings a second call rate(u) can return right after a first call
\* that returned first, with nothing done in between.
RatingsAfter(first, u) == rate(hg, already_matched, first.tmp_ratings, u)

\* C11, as amended: two consecutive calls rate(u) with nothing in between
\* return the same validity and the same value; they return the same target
\* unless several candidates have the greatest rating, in which case each
\* call returns one of those, as the tie-breaking of the acceptance policy
\* decides.
C11_RateTwiceSameValue ==
  \A u \in nodes(hg) : \A first \in RatingsOf(u) : \A second \in RatingsAfter(first, u) :
    /\ second.valid = first.valid
    /\ RatingEq(second.value, first.value)
    /\ second.target # first.target =>
         TiedAtBest(u, first.target) /\ TiedAtBest(u, second.target)

\* coarsen has rated a vertex that has one best candidate, and one that has
\* several.
C11_Witness ==
  /\ pc \in CoarsenPositions
  /\ last_rating.valid
  /\ \E u \in nodes(hg) : Cardinality({r.target : r \in RatingsOf(u)}) = 1
                             /\ Cardinality(Partners(u)) >= 2
  /\ \E u \in nodes(hg) : Cardinality({r.target : r \in RatingsOf(u)}) >= 2

\* C11, as claimed: two consecutive calls rate(u) with nothing in between
\* return the same target, value and validity.
C11_RateTwiceSameRating ==
  \A u \in nodes(hg) : \A first \in RatingsOf(u) : \A second \in RatingsAfter(first, u) :
    /\ second.valid = first.valid
    /\ RatingEq(second.value, first.value)
    /\ second.target = first.target

\* C12: a call rate(u) of coarsen, whatever it returns, leaves the score
\* accumulator empty and changes neither the hypergraph nor the matched
\* markers: after a visit with an invalid rating both are as before, and
\* after a visit with a valid one they are what markAsMatched and
\* performContraction make of the values they had before the call.
C12_RateFrame ==
  [][(pc = "scan" /\ nodeIsEnabled(hg, Visited) /\ pc' # "aborted") =>
       /\ tmp_ratings' = << >>
       /\ last_rating'.source = Visited
       /\ IF last_rating'.valid
          THEN /\ hg' = performContraction([hg |-> hg, history |-> history],
                                           Visited, last_rating'.target).hg
               /\ already_matched' = [already_matched EXCEPT
                                        ![Visited] = TRUE,
                                        ![last_rating'.target] = TRUE]
          ELSE /\ hg' = hg
               /\ already_matched' = already_matched]_vars

\* In a pass that has contracted, rate has returned an invalid rating for a
\* vertex that shares a hyperedge with another enabled vertex.
C12_Witness ==
  /\ pc \in CoarsenPositions
  /\ pass_contractions >= 1
  /\ ~last_rating.valid
  /\ nodeIsEnabled(hg, last_rating.source)
  /\ tmp_ratings = << >>
  /\ \E v \in nodes(hg) \ {last_rating.source} :
        incidentEdges(hg, v) \cap incidentEdges(hg, last_rating.source) # {}

\* The contractions of the current pass of coarsen, in call order.
PassContractions ==
  SubSeq(contraction_calls, Len(contraction_calls) - pass_contractions + 1,
         Len(contraction_calls))

\* C13, as amended: within one pass of coarsen the vertex a contraction
\* removes takes part in no further contraction of the pass, and no vertex is
\* the representative of two contractions of the pass; a matched
\* representative can still be the contracted vertex of a later contraction
\* of the pass, so a vertex takes part in at most two of them.
C13_MatchedVertexLaterOnlyAsTarget ==
  pc \in CoarsenPositions =>
    \A i, j \in 1..Len(PassContractions) : i < j =>
      /\ PassContractions[i][2] \notin {PassContractions[j][1], PassContractions[j][2]}
      /\ PassContractions[i][1] # PassContractions[j][1]

\* A pass has contracted the representative of one of its earlier
\* contractions into another vertex.
C13_Witness ==
  /\ pc \in CoarsenPositions
  /\ \E i, j \in 1..Len(PassContractions) :
        /\ i < j
        /\ PassContractions[j][2] = PassContractions[i][1]
        /\ already_matched[PassContractions[i][1]]

\* C13, as claimed: within one pass of coarsen no vertex takes part in two
\* contractions.
C13_OnePairPerVertexPerPass ==
  pc \in CoarsenPositions =>
    \A i, j \in 1..Len(PassContractions) : i < j =>
      {PassContractions[i][1], PassContractions[i][2]} \cap
      {PassContractions[j][1], PassContractions[j][2]} = {}

\* The accumulator of rate(u) after its accumulation loop, in the current
\* state of driver A.
ScoresOf(u) == AccumulateEdges(hg, u, 1, tmp_ratings)

PartnersAtCall(u) ==
  {v \in nodes(hg0) \ {u} :
     /\ incidentEdges(hg0, u) \cap incidentEdges(hg0, v) # {}
     /\ partID(hg0, v) = partID(hg0, u)
     /\ comm[v] = comm[u]
     /\ nodeWeight(hg0, u) + nodeWeight(hg0, v) <= max_allowed_node_weight}

\* C15: when no vertex has an admissible partner, rate returns an invalid
\* rating for every vertex, and coarsen(limit), called with more vertices
\* than limit, contracts nothing, changes neither the hypergraph nor the
\* history, fails no assertion, and returns after exactly one pass.
C15_NoPartnerNoContraction ==
  (/\ pc \in CoarsenPositions \cup {"coarsened"}
   /\ start_num_nodes > limit
   /\ \A u \in nodes(hg0) : PartnersAtCall(u) = {}) =>
    /\ \A u \in nodes(hg) : \A r \in RatingsOf(u) :
          ~r.valid /\ r.target = kInvalidTarget
    /\ hg = hg0
    /\ currentNumNodes(hg) = start_num_nodes
    /\ history = << >>
    /\ contraction_calls = << >>
    /\ pass_contractions = 0
    /\ use_assertions = "unobserved"
    /\ pass_nr = 0
    /\ end_of_pass_calls = IF pc = "coarsened" THEN 1 ELSE 0
    /\ pc = "while" => current_hns = {}

\* coarsen has returned after one pass over vertices that share a hyperedge
\* and are too heavy for each other.
C15_Witness ==
  /\ pc = "coarsened"
  /\ start_num_nodes > limit
  /\ \A u \in nodes(hg0) : PartnersAtCall(u) = {}
  /\ max_allowed_node_weight = 1
  /\ last_rating.source # kInvalidTarget
  /\ ~last_rating.valid
  /\ end_of_pass_calls = 1
  /\ hg = hg0

\* C16: from the call of coarsen on, a vertex that has been contracted away
\* is disabled; a disabled vertex of the work list is passed over without a
\* rate call and without any effect, also when it was absorbed earlier in
\* the same pass; a valid rating names an enabled target; and both vertices
\* of a contraction are enabled before it and were not contracted away by an
\* earlier one.
C16_DisabledVertexNeverUsed ==
  [][/\ (pc \in CoarsenPositions) =>
          \A i \in 1..Len(history) : ~nodeIsEnabled(hg, history[i].v)
     /\ (pc = "scan" /\ ~nodeIsEnabled(hg, Visited)) =>
          UNCHANGED <<hg, history, last_rating, tmp_ratings, already_matched,
                      contraction_calls, pass_contractions>>
     /\ (pc = "scan" /\ nodeIsEnabled(hg, Visited)) =>
          /\ last_rating'.source = Visited
          /\ last_rating'.valid => nodeIsEnabled(hg, last_rating'.target)
     /\ (pc = "scan" /\ contraction_calls' # contraction_calls) =>
          LET c == contraction_calls'[Len(contraction_calls')]
          IN /\ nodeIsEnabled(hg, c[1]) /\ nodeIsEnabled(hg, c[2])
             /\ nodeIsEnabled(hg', c[1]) /\ ~nodeIsEnabled(hg', c[2])
             /\ \A i \in 1..Len(history) : history[i].v \notin {c[1], c[2]}]_vars

\* A pass over two vertices has contracted one into the other and has then
\* reached the absorbed one in its work list.
C16_Witness ==
  /\ pc = "pass_end"
  /\ limit = 0
  /\ num_hns_before_pass = 2
  /\ pass_contractions = 1
  /\ current_hns = {}
  /\ ~nodeIsEnabled(hg, history[Len(history)].v)

\* The incident hyperedges of u with at most one pin.
DegenerateEdges(u) == {he \in incidentEdges(hg, u) : edgeSize(hg, he) <= 1}

\* The ratings rate(u) can return once the hyperedges es are taken out of
\* the hypergraph.
RatingsWithout(es, u) ==
  {[target |-> r.target, value |-> r.value, valid |-> r.valid, source |-> u] :
     r \in rate(removeEdges(hg, es), already_matched, tmp_ratings, u)}

\* C17, as amended: rate(u) requires every incident hyperedge to have more
\* than one pin.  When coarsen rates a vertex with a smaller incident
\* hyperedge, a build with assertions stops at the assertion, before any
\* contraction; a build without assertions adds nothing for that hyperedge
\* and returns the rating the other incident hyperedges determine.
C17_DegenerateEdgeAssertedNotSkipped ==
  [][(pc = "scan" /\ nodeIsEnabled(hg, Visited) /\ DegenerateEdges(Visited) # {}) =>
       /\ use_assertions' \in {"yes", "no"}
       /\ use_assertions' = "yes" =>
            pc' = "aborted" /\ hg' = hg /\ history' = history
       /\ use_assertions' = "no" =>
            /\ pc' # "aborted"
            /\ tmp_ratings' = << >>
            /\ last_rating' \in RatingsWithout(DegenerateEdges(Visited), Visited)]_vars

\* A build without assertions has rated a vertex with a single-pin
\* hyperedge and has contracted on the rating.
C17_Witness ==
  /\ edgeSize(hg0, 2) = 1
  /\ last_rating.source \in pins(hg0, 2)
  /\ use_assertions = "no"
  /\ pc \in CoarsenPositions
  /\ last_rating.valid
  /\ Len(history) = 1
  /\ history[1].u = last_rating.source

\* C17, as claimed: when coarsen rates a vertex with an incident hyperedge
\* of at most one pin, the call does not fail and returns the rating the
\* other incident hyperedges determine.
C17_DegenerateEdgeSkipped ==
  [][(pc = "scan" /\ nodeIsEnabled(hg, Visited) /\ DegenerateEdges(Visited) # {}) =>
       /\ pc' # "aborted"
       /\ tmp_ratings' = << >>
       /\ last_rating' \in RatingsWithout(DegenerateEdges(Visited), Visited)]_vars

\* The passes coarsen has completed: pass_nr counts those that were followed
\* by the loop test, the pass that ended in the stall test is one more.
CompletedPasses ==
  IF start_num_nodes <= limit THEN 0
  ELSE IF num_hns_before_pass = currentNumNodes(hg) THEN pass_nr + 1
  ELSE pass_nr

\* C18: the end-of-pass callback is called exactly once per pass of coarsen:
\* while a pass runs, the calls made are those of the passes before it; the
\* for loop, whether it runs through its list or is left by the break on
\* limit, is followed by the callback; the callback comes after the
\* contractions of the pass and before the stall test and the next pass; and
\* when coarsen returns, the calls made equal the passes run, which is none
\* when the vertex count was not above limit at the call.
C18_EndOfPassOncePerPass ==
  [][/\ (pc \in CoarsenPositions) => end_of_pass_calls = pass_nr
     /\ (pc = "coarsened") => end_of_pass_calls = CompletedPasses
     /\ (pc \in {"while", "scan"}) => end_of_pass_calls' = end_of_pass_calls
     /\ (pc = "scan" /\ pc' \notin {"scan", "aborted"}) => pc' = "pass_end"
     /\ (pc = "pass_end") =>
          /\ end_of_pass_calls' = end_of_pass_calls + 1
          /\ UNCHANGED <<hg, history, contraction_calls, pass_contractions>>
          /\ pc' \in {"while", "coarsened"}
          /\ pc' = "coarsened" <=> pass_contractions = 0
          /\ pass_nr' = IF pc' = "while" THEN pass_nr + 1 ELSE pass_nr]_vars

\* coarsen has returned after two passes, the second of which was cut short
\* by the break on limit.
C18_Witness ==
  /\ pc = "coarsened"
  /\ end_of_pass_calls = 2
  /\ pass_nr = 2
  /\ pass_contractions >= 1
  /\ current_hns # {}
  /\ currentNumNodes(hg) = limit

\* The callback arguments that go with the contractions of a history.
CallsFor(hist) == [i \in 1..Len(hist) |-> <<hist[i].u, hist[i].v>>]

\* C19: the contraction callback is called once per contraction with the
\* pair (representative, contracted), in the iteration that contracts, in
\* coarsen and in simulateContractions: until uncoarsening takes records off
\* the history, the sequence of callback arguments is the sequence of the
\* recorded contractions for each driver; a visit with a valid rating adds
\* the pair (hn, target), a visit with an invalid rating adds nothing, and a
\* replayed record adds its pair.
C19_ContractionCallbackOncePerContraction ==
  [][/\ (pc \notin {"uncoarsen", "done"}) => contraction_calls = CallsFor(history)
     /\ mirror.contraction_calls = CallsFor(mirror.history)
     /\ (pc = "scan" /\ pc' # "aborted" /\ nodeIsEnabled(hg, Visited)) =>
          IF last_rating'.valid
          THEN /\ contraction_calls' =
                    Append(contraction_calls, <<Visited, last_rating'.target>>)
               /\ Len(history') = Len(history) + 1
               /\ ~nodeIsEnabled(hg', last_rating'.target)
          ELSE /\ contraction_calls' = contraction_calls
               /\ history' = history
     /\ (pc = "simulate" /\ mirror'.pos # mirror.pos) =>
          /\ mirror'.contraction_calls =
               Append(mirror.contraction_calls,
                      <<mirror.mementos[mirror.pos].u, mirror.mementos[mirror.pos].v>>)
          /\ Len(mirror'.history) = Len(mirror.history) + 1
     /\ (pc \notin {"scan", "simulate"}) =>
          /\ contraction_calls' = contraction_calls
          /\ mirror'.contraction_calls = mirror.contraction_calls]_vars

\* Driver A has been called back for two contractions and for none at its
\* latest, invalid rating; driver B has been called back for a record it
\* replayed.
C19_Witness ==
  /\ Len(contraction_calls) = 2
  /\ contraction_calls = CallsFor(history)
  /\ ~last_rating.valid /\ last_rating.source # kInvalidTarget
  /\ Len(mirror.contraction_calls) >= 1
  /\ mirror.contraction_calls[1] = contraction_calls[1]

\* What an iteration of the for loop makes of the state of driver A, given
\* the vertex the shuffled list holds next and the target its rating names.
AfterIteration(hn, target) ==
  LET d == IF target = kInvalidTarget
           THEN [hg |-> hg, history |-> history]
           ELSE performContraction([hg |-> hg, history |-> history], hn, target)
  IN [hg |-> d.hg, history |-> d.history,
      break |-> currentNumNodes(d.hg) <= limit]

====
